---------------------------- MODULE Spec2Model ----------------------------
(***************************************************************************)
(* Model of the recommendation engine of src/App.jsx: the text-similarity  *)
(* scorer getJaccardSimilarity and the rule-based suggestion generator     *)
(* getSmartRecommendations.                                                *)
(*                                                                         *)
(* A JavaScript string is a sequence of one-character strings, so that     *)
(* toLowerCase, replace, split and includes are computed character by      *)
(* character.  A JavaScript number that is a quotient of two set sizes is  *)
(* the record [num, den]; comparisons are made by cross-multiplication,    *)
(* which agrees with IEEE-754 division for the small integers involved,    *)
(* and den = 0 stands for the NaN that 0/0 produces.                       *)
(***************************************************************************)
EXTENDS Integers, Sequences, FiniteSets, TLC

(***************************************************************************)
(* Strings                                                                 *)
(***************************************************************************)

UpperCase ==
    <<"A","B","C","D","E","F","G","H","I","J","K","L","M",
      "N","O","P","Q","R","S","T","U","V","W","X","Y","Z">>

LowerCase ==
    <<"a","b","c","d","e","f","g","h","i","j","k","l","m",
      "n","o","p","q","r","s","t","u","v","w","x","y","z">>

\* the lower-case letter of each upper-case letter
lowerOf ==
    [c \in { UpperCase[i] : i \in DOMAIN UpperCase } |->
        LowerCase[CHOOSE i \in DOMAIN UpperCase : UpperCase[i] = c]]

\* String.prototype.toLowerCase on one character
lowerChar(c) ==
    IF c \in DOMAIN lowerOf THEN lowerOf[c] ELSE c

\* String.prototype.toLowerCase: character by character
toLowerCase(s) ==
    [i \in 1..Len(s) |-> lowerChar(s[i])] \o << >>

\* String.prototype.includes: sub occurs in s as a contiguous substring
includes(s, sub) ==
    \E i \in 0..(Len(s) - Len(sub)) : SubSeq(s, i + 1, i + Len(sub)) = sub

\* the grave accent, a character the string syntax of TLA+ cannot hold
GraveAccent ==
    "GRAVE"

\* the character class of the regular expression of normalize
punctuation ==
    {".", ",", "/", "#", "!", "$", "%", "^", "&", "*", ";", ":",
     "{", "}", "=", "-", "_", GraveAccent, "~", "(", ")"}

\* text.replace(re, ""): the characters of the class are deleted
removePunctuation(s) ==
    SelectSeq(s, LAMBDA c : c \notin punctuation)

\* the characters the regular expression class \s matches (those the inputs use)
whitespace ==
    {" ", "\t", "\n", "\r"}

\* s.split(/\s+/): the pieces between maximal runs of whitespace, in order;
\* a leading run leaves an empty piece before it, a trailing run one after
\* it, and the empty string splits into one empty piece
split(s) ==
    LET n == Len(s)
        isSpace(i) == s[i] \in whitespace
        starts == SelectSeq([i \in 1..n |-> i],
                            LAMBDA i : ~ isSpace(i) /\ (i = 1 \/ isSpace(i - 1)))
        endOf(i) == CHOOSE j \in i..n :
                        /\ j = n \/ isSpace(j + 1)
                        /\ \A k \in (i + 1)..j : ~ isSpace(k)
        pieces == [k \in DOMAIN starts |-> SubSeq(s, starts[k], endOf(starts[k]))]
        leading == IF isSpace(1) THEN << << >> >> ELSE << >>
        trailing == IF isSpace(n) THEN << << >> >> ELSE << >>
    IN  IF n = 0 THEN << << >> >> ELSE leading \o pieces \o trailing

(***************************************************************************)
(* getJaccardSimilarity                                                    *)
(***************************************************************************)

\* the stop-word list of normalize
stopWords ==
    { <<"a">>, <<"t","h","e">>, <<"i","s">>, <<"o","f">>, <<"a","n","d">>,
      <<"t","o">>, <<"i","n">>, <<"f","o","r">>, <<"w","i","t","h">>,
      <<"o","n">>, <<"m","y">> }

\* the filter predicate w => w.length > 2 && !stopWords.has(w)
keepWord(w) ==
    Len(w) > 2 /\ w \notin stopWords

\* normalize: the set of kept words of the lower-cased, punctuation-free text
normalize(text) ==
    LET words == split(removePunctuation(toLowerCase(text)))
    IN  { words[i] : i \in { j \in DOMAIN words : keepWord(words[j]) } }

\* the value the early return yields: the number 0
Zero ==
    [num |-> 0, den |-> 1]

emptyGuardMissing(setA, setB) ==
    FALSE

\* if (setA.size === 0 || setB.size === 0) return 0
emptyGuard(setA, setB) ==
    Cardinality(setA) = 0 \/ Cardinality(setB) = 0

\* new Set([...setA].filter(x => setB.has(x)))
intersection(setA, setB) ==
    { x \in setA : x \in setB }

\* new Set([...setA, ...setB])
union(setA, setB) ==
    setA \cup setB

unionSizeOfFirst(setA, setB) ==
    Cardinality(setA)

unionSizeNoSet(setA, setB) ==
    Cardinality(setA) + Cardinality(setB)

\* union.size
unionSize(setA, setB) ==
    Cardinality(union(setA, setB))

\* intersection.size / union.size
getJaccardSimilarity(text1, text2) ==
    LET setA == normalize(text1)
        setB == normalize(text2)
    IN  IF emptyGuard(setA, setB) THEN Zero
        ELSE [num |-> Cardinality(intersection(setA, setB)),
              den |-> unionSize(setA, setB)]

(***************************************************************************)
(* String literals of the source and of the cards the model feeds it       *)
(***************************************************************************)

\* the string: today
kwToday ==
    <<"t","o","d","a","y">>
\* the string: urgent
kwUrgent ==
    <<"u","r","g","e","n","t">>
\* the string: asap
kwAsap ==
    <<"a","s","a","p">>
\* the string: tomorrow
kwTomorrow ==
    <<"t","o","m","o","r","r","o","w">>
\* the string: next day
kwNextDay ==
    <<"n","e","x","t"," ","d","a","y">>
\* the string: next week
kwNextWeek ==
    <<"n","e","x","t"," ","w","e","e","k">>
\* the string: 7 days
kwSevenDays ==
    <<"7"," ","d","a","y","s">>
\* the string: started
kwStarted ==
    <<"s","t","a","r","t","e","d">>
\* the string: working on
kwWorkingOn ==
    <<"w","o","r","k","i","n","g"," ","o","n">>
\* the string: done
kwDone ==
    <<"d","o","n","e">>
\* the string: complete
kwComplete ==
    <<"c","o","m","p","l","e","t","e">>
\* the string: To Do
strToDo ==
    <<"T","o"," ","D","o">>
\* the string: In Progress
strInProgress ==
    <<"I","n"," ","P","r","o","g","r","e","s","s">>
\* the string: Done
strDone ==
    <<"D","o","n","e">>
\* the string: to do
strToDoLower ==
    <<"t","o"," ","d","o">>
\* the string: To Do / In Progress
strToDoInProgress ==
    <<"T","o"," ","D","o"," ","/"," ","I","n"," ","P","r","o","g","r","e","s","s">>
\* the string: Fix login bug
ttlFixLogin ==
    <<"F","i","x"," ","l","o","g","i","n"," ","b","u","g">>
\* the string: URGENT: update README
ttlUrgentReadme ==
    <<"U","R","G","E","N","T",":"," ","u","p","d","a","t","e"," ","R","E","A","D","M","E">>
\* the string: Fix signup bug
ttlFixSignup ==
    <<"F","i","x"," ","s","i","g","n","u","p"," ","b","u","g">>
\* the string: Update README
ttlUpdateReadme ==
    <<"U","p","d","a","t","e"," ","R","E","A","D","M","E">>
\* the string: bug
ttlBug ==
    <<"b","u","g">>
\* the string: FIX
ttlFixLoud ==
    <<"F","I","X">>
\* the string: Fix bug
ttlFixBug ==
    <<"F","i","x"," ","b","u","g">>
\* the string: urgent, users cannot sign in today
dscUrgentToday ==
    <<"u","r","g","e","n","t",","," ","u","s","e","r","s"," ","c","a","n","n","o","t"," ","s","i","g","n"," ","i","n"," ","t","o","d","a","y">>
\* the string: Started working on it; due TOMORROW
dscStartedTomorrow ==
    <<"S","t","a","r","t","e","d"," ","w","o","r","k","i","n","g"," ","o","n"," ","i","t",";"," ","d","u","e"," ","T","O","M","O","R","R","O","W">>
\* the string: all done next week
dscDoneNextWeek ==
    <<"a","l","l"," ","d","o","n","e"," ","n","e","x","t"," ","w","e","e","k">>
\* the string: ASAP - complete in 7 days, or next day
dscAsapAll ==
    <<"A","S","A","P"," ","-"," ","c","o","m","p","l","e","t","e"," ","i","n"," ","7"," ","d","a","y","s",","," ","o","r"," ","n","e","x","t"," ","d","a","y">>
\* the string: tomorrow or next week
dscTomorrowNextWeek ==
    <<"t","o","m","o","r","r","o","w"," ","o","r"," ","n","e","x","t"," ","w","e","e","k">>
\* the string: started, now done
dscStartedDone ==
    <<"s","t","a","r","t","e","d",","," ","n","o","w"," ","d","o","n","e">>
\* the string: users cannot create accounts
dscSignup ==
    <<"u","s","e","r","s"," ","c","a","n","n","o","t"," ","c","r","e","a","t","e"," ","a","c","c","o","u","n","t","s">>
\* the string: alpha beta gamma
dscGreek ==
    <<"a","l","p","h","a"," ","b","e","t","a"," ","g","a","m","m","a">>
\* the string: it is on
dscStopOnly ==
    <<"i","t"," ","i","s"," ","o","n">>
\* the string:  <TAB> 
txtBlank ==
    <<" ","\t"," ">>
\* the string: the a of
txtStopOnly ==
    <<"t","h","e"," ","a"," ","o","f">>
\* the string: To do it
txtShortOnly ==
    <<"T","o"," ","d","o"," ","i","t">>
\* the string: FIX login, bug!
txtFixLoginLoud ==
    <<"F","I","X"," ","l","o","g","i","n",","," ","b","u","g","!">>
\* the string: bug report
txtBugReport ==
    <<"b","u","g"," ","r","e","p","o","r","t">>
\* the string: login? bug
txtQuestion ==
    <<"l","o","g","i","n","?"," ","b","u","g">>
\* the string: log-in b.u.g
txtHyphen ==
    <<"l","o","g","-","i","n"," ","b",".","u",".","g">>

(***************************************************************************)
(* Cards, dates and recommendations                                        *)
(*                                                                         *)
(* An optional text (card.description) is [set, val]; set = FALSE is       *)
(* undefined.  A due date is [kind, day]: kind "undefined" (no field),     *)
(* "empty" (the string the modal stores for no date) or "date" (the ISO    *)
(* calendar date that is day days after the epoch).  An instant with the   *)
(* caller's zone is [day, hour, tz]: the local calendar day, the local     *)
(* hour and the zone's offset from UTC in hours.                           *)
(***************************************************************************)

Undefined ==
    [set |-> FALSE, val |-> << >>]

Some(text) ==
    [set |-> TRUE, val |-> text]

\* (x || ''): an undefined or empty text is the empty string
orEmpty(opt) ==
    IF opt.set /\ opt.val # << >> THEN opt.val ELSE << >>

NoDueDate ==
    [kind |-> "undefined", day |-> 0]

EmptyDueDate ==
    [kind |-> "empty", day |-> 0]

DateString(d) ==
    [kind |-> "date", day |-> d]

\* date.setDate(date.getDate() + k): k local calendar days later, same local time
setDate(date, k) ==
    [date EXCEPT !.day = @ + k]

\* date.toISOString().split('T')[0]: the calendar date of the instant in UTC
toISODate(date) ==
    DateString((date.day * 24 + date.hour - date.tz) \div 24)

\* (card.title + ' ' + (card.description || '')).toLowerCase()
content(card) ==
    toLowerCase(card.title \o <<" ">> \o orEmpty(card.description))

\* otherCard.title + ' ' + (otherCard.description || '')
cardText(otherCard) ==
    otherCard.title \o <<" ">> \o orEmpty(otherCard.description)

\* card.dueDate is truthy: present and not the empty string
hasDueDate(card) ==
    card.dueDate.kind = "date"

NoRule ==
    [days |-> -1, rationale |-> ""]

dateRuleSwapped(text) ==
    IF includes(text, kwTomorrow) \/ includes(text, kwNextDay)
    THEN [days |-> 1, rationale |-> "Based on short-term keywords."]
    ELSE IF includes(text, kwToday) \/ includes(text, kwUrgent) \/ includes(text, kwAsap)
    THEN [days |-> 0, rationale |-> "Based on urgent keywords."]
    ELSE IF includes(text, kwNextWeek) \/ includes(text, kwSevenDays)
    THEN [days |-> 7, rationale |-> "Based on medium-term keywords."]
    ELSE NoRule

\* the if / else if / else if chain that sets date and rationale
dateRule(text) ==
    IF includes(text, kwToday) \/ includes(text, kwUrgent) \/ includes(text, kwAsap)
    THEN [days |-> 0, rationale |-> "Based on urgent keywords."]
    ELSE IF includes(text, kwTomorrow) \/ includes(text, kwNextDay)
    THEN [days |-> 1, rationale |-> "Based on short-term keywords."]
    ELSE IF includes(text, kwNextWeek) \/ includes(text, kwSevenDays)
    THEN [days |-> 7, rationale |-> "Based on medium-term keywords."]
    ELSE NoRule

\* recs.push({ type: 'date', text, action, rationale }); text, the button
\* label built from action, is left out of every entry, and every entry has
\* the same fields: action is empty where the source has none, cards likewise
dateRec(rule, now) ==
    [type |-> "date", action |-> toISODate(setDate(now, rule.days)),
     rationale |-> rule.rationale, cards |-> << >>]

dateRecsUnguarded(card, now) ==
    LET rule == dateRule(content(card))
    IN  IF rule = NoRule THEN << >> ELSE << dateRec(rule, now) >>

\* the block under if (!card.dueDate)
dateRecs(card, now) ==
    IF hasDueDate(card) THEN << >>
    ELSE LET rule == dateRule(content(card))
         IN  IF rule = NoRule THEN << >> ELSE << dateRec(rule, now) >>

moveToInProgress ==
    [type |-> "move", action |-> strInProgress,
     rationale |-> "Keywords suggest work has begun.", cards |-> << >>]

moveToDone ==
    [type |-> "move", action |-> strDone,
     rationale |-> "Keywords suggest task is complete.", cards |-> << >>]

\* currentList.includes('To Do') && (content has 'started' or 'working on')
startedRule(card) ==
    /\ includes(card.listTitle, strToDo)
    /\ includes(content(card), kwStarted) \/ includes(content(card), kwWorkingOn)

\* currentList.includes('In Progress') && (content has 'done' or 'complete')
finishedRule(card) ==
    /\ includes(card.listTitle, strInProgress)
    /\ includes(content(card), kwDone) \/ includes(content(card), kwComplete)

moveRecsBoth(card) ==
    (IF startedRule(card) THEN << moveToInProgress >> ELSE << >>)
    \o (IF finishedRule(card) THEN << moveToDone >> ELSE << >>)

\* the if / else if that pushes a move suggestion
moveRecs(card) ==
    IF startedRule(card) THEN << moveToInProgress >>
    ELSE IF finishedRule(card) THEN << moveToDone >>
    ELSE << >>

isOtherAny(c, card) ==
    TRUE

\* the filter predicate c => c.id !== card.id
isOther(c, card) ==
    c.id # card.id

aboveThresholdOrEqual(similarity) ==
    4 * similarity.num >= similarity.den

\* the filter predicate item => item.similarity > 0.25
aboveThreshold(similarity) ==
    4 * similarity.num > similarity.den

comesAfterAscending(a, b) ==
    a.similarity.num * b.similarity.den > b.similarity.num * a.similarity.den

\* the comparator (a, b) => b.similarity - a.similarity returns a positive
\* number: b must come before a
comesAfter(a, b) ==
    b.similarity.num * a.similarity.den > a.similarity.num * b.similarity.den

\* .sort(comparator), stable since ES2019: each item is placed behind every
\* earlier item that need not come after it
RECURSIVE sortBySimilarity(_)
sortBySimilarity(items) ==
    IF items = << >> THEN << >>
    ELSE LET n == Len(items)
             x == items[n]
             sorted == sortBySimilarity(SubSeq(items, 1, n - 1))
             k == Cardinality({ i \in DOMAIN sorted : ~ comesAfter(sorted[i], x) })
         IN  SubSeq(sorted, 1, k) \o << x >> \o SubSeq(sorted, k + 1, Len(sorted))

\* the cap of .slice(0, 3)
TopN ==
    3

\* .slice(0, 3)
sliceTop(items) ==
    SubSeq(items, 1, IF Len(items) < TopN THEN Len(items) ELSE TopN)

\* allCards.filter(...).map(otherCard => ({ card: otherCard, similarity })):
\* index is the position in allCards of the object that item.card refers to
scoredOthers(card, allCards) ==
    LET kept == SelectSeq([i \in DOMAIN allCards |-> i],
                          LAMBDA i : isOther(allCards[i], card))
    IN  [j \in DOMAIN kept |->
            [card |-> allCards[kept[j]], index |-> kept[j],
             similarity |-> getJaccardSimilarity(content(card), cardText(allCards[kept[j]]))]]

\* const relatedCards = allCards.filter().map().filter().sort().slice(0, 3)
relatedCards(card, allCards) ==
    sliceTop(sortBySimilarity(
        SelectSeq(scoredOthers(card, allCards),
                  LAMBDA item : aboveThreshold(item.similarity))))

relatedRec(related) ==
    [type |-> "related", action |-> << >>,
     rationale |-> "Content similarity analysis.", cards |-> related]

\* if (relatedCards.length > 0) recs.push({ type: 'related', ... })
relatedRecs(card, allCards) ==
    LET related == relatedCards(card, allCards)
    IN  IF Len(related) > 0 THEN << relatedRec(related) >> ELSE << >>

getSmartRecommendationsRelatedFirst(card, allCards, now) ==
    relatedRecs(card, allCards) \o dateRecs(card, now) \o moveRecs(card)

\* getSmartRecommendations: recs in the order of the three push sites
getSmartRecommendations(card, allCards, now) ==
    dateRecs(card, now) \o moveRecs(card) \o relatedRecs(card, allCards)

(***************************************************************************)
(* Inputs                                                                  *)
(***************************************************************************)

\* the most cards a sibling collection holds when ranking is explored
MaxSiblings ==
    4

\* a card record as BoardView hands it to the modal and to the engine
Card(id, title, description, dueDate, listTitle) ==
    [id |-> id, title |-> title, description |-> description,
     dueDate |-> dueDate, listTitle |-> listTitle]

\* the titles of defaultLists, and two titles that probe the substring match
ListTitles ==
    {strToDo, strInProgress, strDone, strToDoLower, strToDoInProgress}

DueDates ==
    {NoDueDate, EmptyDueDate, DateString(120)}

TargetTitles ==
    {ttlFixLogin, ttlUrgentReadme}

TargetDescriptions ==
    {Undefined, Some(dscUrgentToday), Some(dscStartedTomorrow),
     Some(dscDoneNextWeek), Some(dscAsapAll), Some(dscTomorrowNextWeek),
     Some(dscStartedDone)}

\* the card whose modal is open always has this id
TargetId ==
    "c0"

\* every target card the date and move rules are explored with
RuleTargets ==
    { Card(TargetId, t, d, due, l) :
        t \in TargetTitles, d \in TargetDescriptions, due \in DueDates, l \in ListTitles }

\* the target cards ranking is explored with
RankTargets ==
    { Card(TargetId, ttlFixLogin, Undefined, NoDueDate, strToDo),
      Card(TargetId, ttlFixLogin, Some(dscUrgentToday), NoDueDate, strInProgress) }

sibBug ==
    Card("c1", ttlBug, Undefined, NoDueDate, strToDo)

sibFixLoud ==
    Card("c2", ttlFixLoud, Some(<< >>), NoDueDate, strToDo)

sibFixBugGreek ==
    Card("c3", ttlFixBug, Some(dscGreek), NoDueDate, strInProgress)

sibFixBug ==
    Card("c4", ttlFixBug, Some(dscStopOnly), DateString(120), strDone)

sibSignup ==
    Card("c5", ttlFixSignup, Some(dscSignup), NoDueDate, strToDo)

sibUpdate ==
    Card("c6", ttlUpdateReadme, Undefined, NoDueDate, strToDo)

sibTwin ==
    Card("c7", ttlFixLogin, Undefined, NoDueDate, strToDo)

\* the stored copy of the target card: the cards state holds it too
sibSelf ==
    Card(TargetId, ttlFixLogin, Undefined, NoDueDate, strToDo)

RankPool ==
    {sibBug, sibFixBugGreek, sibFixBug, sibSignup, sibSelf}

SeqsUpTo(S, n) ==
    UNION { [1..k -> S] : k \in 0..n }

RuleSiblings ==
    { << >>, <<sibSignup, sibUpdate>>, <<sibTwin, sibSelf, sibFixLoud, sibUpdate, sibSelf>> }

Noon ==
    [day |-> 100, hour |-> 12, tz |-> 0]

LateEvening ==
    [day |-> 100, hour |-> 22, tz |-> -5]

\* the arguments of one call: the card, the cards state and the clock
Inputs ==
    (RuleTargets \X RuleSiblings \X {Noon, LateEvening})
    \cup (RankTargets \X SeqsUpTo(RankPool, MaxSiblings) \X {Noon})

\* the texts the scorer is explored with
Texts ==
    { << >>, txtBlank, txtStopOnly, txtShortOnly, ttlFixLogin, txtFixLoginLoud,
      ttlFixSignup, ttlUpdateReadme, ttlBug, txtBugReport, txtQuestion,
      txtHyphen, dscSignup }

(***************************************************************************)
(* State                                                                   *)
(***************************************************************************)

VARIABLES
    card,             \* the card prop of CardModal (selectedCard of BoardView)
    allCards,         \* the allCards prop of CardModal (the cards state of App)
    now,              \* what new Date() returns during the call
    recs,             \* the value of getSmartRecommendations(card, allCards)
    text1,            \* first argument of a call of getJaccardSimilarity
    text2,            \* second argument of that call
    sim,              \* the value that call returned
    pc,               \* "ready" before a call, "done" after it, "app" in App
    calls,            \* how many calls of getSmartRecommendations were made
    store,            \* the cards collection of the document store, by id
    boardDocs,        \* the ids of the documents of the boards collection
    boards,           \* the boards state of App
    selectedBoardId,  \* the selectedBoardId state of App
    subBoardId,       \* the selectedBoardId the current listeners closed over
    creating,         \* the id addDoc gave the board createNewBoard awaits
    isModalOpen,      \* the isModalOpen state of BoardView
    formDueDate       \* the dueDate state of CardModal

engineVars ==
    <<card, allCards, now, recs, pc, calls>>

scorerVars ==
    <<text1, text2, sim>>

appVars ==
    <<store, boardDocs, boards, selectedBoardId, subBoardId, creating,
      isModalOpen, formDueDate>>

vars ==
    <<engineVars, scorerVars, appVars>>

\* null and undefined where an id is expected
Null ==
    "null"

\* the engine and the scorer are called on their own: no application state
NoApp ==
    /\ store = << >>
    /\ boardDocs = {}
    /\ boards = << >>
    /\ selectedBoardId = Null
    /\ subBoardId = Null
    /\ creating = Null
    /\ isModalOpen = FALSE
    /\ formDueDate = NoDueDate

\* no call of the scorer is in progress
NoScore ==
    /\ text1 = << >>
    /\ text2 = << >>
    /\ sim = Zero

\* const recs = [] ... return recs: the array is created by each call, so the
\* value returned owes nothing to prev, the value of the call before
recsAfterCall(prev, c, all, t) ==
    getSmartRecommendations(c, all, t)

scoredAllSorted(c, all) ==
    sortBySimilarity(
        [i \in DOMAIN all |->
            [card |-> all[i], index |-> i,
             similarity |-> getJaccardSimilarity(content(c), cardText(all[i]))]])

allCardsSortedInPlace(c, all) ==
    LET sorted == scoredAllSorted(c, all)
    IN  [i \in DOMAIN sorted |-> sorted[i].card]

\* the array allCards after the call: filter, map and slice return new
\* arrays and sort reorders the array the second filter returned, so the
\* array passed in keeps its members and their order
allCardsAfterCall(c, all) ==
    all

\* the card after the call: no statement assigns to it or to a field of it
cardAfterCall(c) ==
    c

\* a modal is open on card with allCards; nothing is computed yet
Init ==
    /\ \E inp \in Inputs :
         /\ card = inp[1]
         /\ allCards = inp[2]
         /\ now = inp[3]
    /\ recs = << >>
    /\ pc = "ready"
    /\ calls = 0
    /\ NoScore
    /\ NoApp

\* useMemo(() => getSmartRecommendations(card, allCards), [card, allCards])
Recommend ==
    /\ pc = "ready"
    /\ recs' = recsAfterCall(recs, card, allCards, now)
    /\ allCards' = allCardsAfterCall(card, allCards)
    /\ card' = cardAfterCall(card)
    /\ pc' = "done"
    /\ calls' = calls + 1
    /\ UNCHANGED <<now, scorerVars, appVars>>

Next ==
    Recommend

Spec ==
    Init /\ [][Next]_vars

\* two texts are about to be scored
SimInit ==
    /\ text1 \in Texts
    /\ text2 \in Texts
    /\ sim = Zero
    /\ card = sibSelf
    /\ allCards = << >>
    /\ now = Noon
    /\ recs = << >>
    /\ pc = "ready"
    /\ calls = 0
    /\ NoApp

\* const similarity = getJaccardSimilarity(text1, text2)
Score ==
    /\ pc = "ready"
    /\ sim' = getJaccardSimilarity(text1, text2)
    /\ pc' = "done"
    /\ UNCHANGED <<card, allCards, now, recs, calls, text1, text2, appVars>>

SimNext ==
    Score

SimSpec ==
    SimInit /\ [][SimNext]_vars

(***************************************************************************)
(* A sequence of calls of getSmartRecommendations                          *)
(***************************************************************************)

\* the most calls one run makes
MaxCalls ==
    3

\* the arguments the calls of a sequence are made with
CallInputs ==
    { <<Card(TargetId, ttlFixLogin, Undefined, NoDueDate, strToDo),
        <<sibBug, sibSelf, sibFixBug, sibSignup>>, Noon>>,
      <<Card(TargetId, ttlFixLogin, Undefined, NoDueDate, strToDo),
        <<sibFixBug, sibBug>>, Noon>>,
      <<Card(TargetId, ttlFixLogin, Some(dscStartedTomorrow), NoDueDate, strToDo),
        <<sibTwin, sibSelf, sibFixLoud, sibUpdate>>, Noon>>,
      <<Card(TargetId, ttlFixLogin, Some(dscStartedTomorrow), DateString(120), strInProgress),
        <<sibUpdate, sibTwin>>, LateEvening>>,
      <<Card(TargetId, ttlUrgentReadme, Some(dscStartedDone), EmptyDueDate, strToDoInProgress),
        <<sibUpdate>>, Noon>>,
      <<Card(TargetId, ttlFixLogin, Some(dscDoneNextWeek), NoDueDate, strInProgress),
        << >>, LateEvening>>,
      <<Card(TargetId, ttlUpdateReadme, Undefined, NoDueDate, strDone),
        <<sibBug>>, Noon>> }

\* the first call is about to be made
CallsInit ==
    /\ \E inp \in CallInputs :
         /\ card = inp[1]
         /\ allCards = inp[2]
         /\ now = inp[3]
    /\ recs = << >>
    /\ pc = "ready"
    /\ calls = 0
    /\ NoScore
    /\ NoApp

\* the caller renders again, with the same or with other props, at the same
\* or at another time: the value of the call before is still at hand
Rerender ==
    /\ pc = "done"
    /\ calls < MaxCalls
    /\ \E inp \in CallInputs :
         /\ card' = inp[1]
         /\ allCards' = inp[2]
         /\ now' = inp[3]
    /\ pc' = "ready"
    /\ UNCHANGED <<recs, calls, scorerVars, appVars>>

CallsNext ==
    Recommend \/ Rerender

CallsSpec ==
    CallsInit /\ [][CallsNext]_vars

(***************************************************************************)
(* App, BoardView and CardModal over the document store                    *)
(*                                                                         *)
(* A document of the cards collection is [title, description, dueDate,     *)
(* listId, boardId]; a card of the cards state is the document with its    *)
(* id, and selectedCard is such a card with the listTitle the click adds.  *)
(* A board is known by its id.  Every board is the user's, the store and   *)
(* the sign-in are ready, and the listeners of the first run of the effect *)
(* are subscribed.                                                         *)
(***************************************************************************)

\* const defaultLists
defaultLists ==
    << [id |-> "todo", title |-> strToDo, order |-> 1],
       [id |-> "in_progress", title |-> strInProgress, order |-> 2],
       [id |-> "done", title |-> strDone, order |-> 3] >>

\* the ids of the card documents, in the order a snapshot lists them
CardIds ==
    <<"k1", "k2", "k3">>

\* the ids of the board documents, in the order a snapshot lists them;
\* the last one is the board createNewBoard can still add
BoardIds ==
    <<"b1", "b2", "b3">>

Doc(title, description, dueDate, listId, boardId) ==
    [title |-> title, description |-> description, dueDate |-> dueDate,
     listId |-> listId, boardId |-> boardId]

\* the cards collection when the application starts
InitialStore ==
    [k \in { CardIds[i] : i \in DOMAIN CardIds } |->
        CASE k = "k1" -> Doc(ttlFixLogin, Some(dscStartedTomorrow), NoDueDate, "todo", "b1")
          [] k = "k2" -> Doc(ttlFixBug, Undefined, NoDueDate, "in_progress", "b1")
          [] OTHER -> Doc(ttlUpdateReadme, Undefined, NoDueDate, "todo", "b2")]

\* selectedCard before any click: useState(null)
NoCard ==
    [id |-> Null, title |-> << >>, description |-> Undefined, dueDate |-> NoDueDate,
     listId |-> Null, boardId |-> Null, listTitle |-> << >>]

\* snapshot.docs.map(doc => ({ id: doc.id, ...doc.data() }))
fetchedCards(docs) ==
    [i \in DOMAIN CardIds |->
        [id |-> CardIds[i], title |-> docs[CardIds[i]].title,
         description |-> docs[CardIds[i]].description,
         dueDate |-> docs[CardIds[i]].dueDate,
         listId |-> docs[CardIds[i]].listId,
         boardId |-> docs[CardIds[i]].boardId]]

\* .filter(card => card.boardId === selectedBoardId), with the
\* selectedBoardId the listener closed over
cardsOfBoard(docs, boardId) ==
    SelectSeq(fetchedCards(docs), LAMBDA c : c.boardId = boardId)

\* the boards the boards listener sets: those of the collection, in order
userBoards(ids) ==
    SelectSeq(BoardIds, LAMBDA b : b \in ids)

\* const selectedBoard = boards.find(b => b.id === selectedBoardId) is defined
boardDefined ==
    \E i \in DOMAIN boards : boards[i] = selectedBoardId

\* { ...card, listTitle: list.title } for the list the card is rendered in
withListTitle(c) ==
    LET list == defaultLists[CHOOSE i \in DOMAIN defaultLists : defaultLists[i].id = c.listId]
    IN  [id |-> c.id, title |-> c.title, description |-> c.description,
         dueDate |-> c.dueDate, listId |-> c.listId, boardId |-> c.boardId,
         listTitle |-> list.title]

\* the recs of CardModal after a render: computed while the modal is
\* mounted, from the card and allCards props of that render
shownRecs(open, c, all, t) ==
    IF open THEN recsAfterCall(<< >>, c, all, t) ELSE << >>

\* the application has started: nothing is fetched, no board is selected
AppInit ==
    /\ pc = "app"
    /\ card = NoCard
    /\ allCards = << >>
    /\ now = Noon
    /\ recs = << >>
    /\ calls = 0
    /\ NoScore
    /\ store = InitialStore
    /\ boardDocs = {"b1", "b2"}
    /\ boards = << >>
    /\ selectedBoardId = Null
    /\ subBoardId = Null
    /\ creating = Null
    /\ isModalOpen = FALSE
    /\ formDueDate = NoDueDate

\* the boards listener: setBoards(userBoards), and the first board is
\* selected if the selectedBoardId the listener closed over is null
BoardsSnapshot ==
    /\ pc = "app"
    /\ boards' = userBoards(boardDocs)
    /\ selectedBoardId' =
           IF Len(boards') > 0 /\ subBoardId = Null THEN boards'[1] ELSE selectedBoardId
    /\ UNCHANGED <<engineVars, scorerVars, store, boardDocs, subBoardId, creating,
                   isModalOpen, formDueDate>>

\* the cards listener: setCards(fetchedCards); an open modal renders again
\* with the new allCards
CardsSnapshot ==
    /\ pc = "app"
    /\ allCards' = cardsOfBoard(store, subBoardId)
    /\ recs' = shownRecs(isModalOpen, card, allCards', now)
    /\ UNCHANGED <<card, now, pc, calls, scorerVars, appVars>>

\* onClick={() => setSelectedBoardId(board.id)} of a board button
SelectBoard(b) ==
    /\ pc = "app"
    /\ ~ isModalOpen
    /\ \E i \in DOMAIN boards : boards[i] = b
    /\ selectedBoardId' = b
    /\ UNCHANGED <<engineVars, scorerVars, store, boardDocs, boards, subBoardId,
                   creating, isModalOpen, formDueDate>>

\* createNewBoard up to await addDoc(...): the board document is added
CreateBoardStart ==
    /\ pc = "app"
    /\ ~ isModalOpen
    /\ creating = Null
    /\ \E i \in DOMAIN BoardIds :
         /\ BoardIds[i] \notin boardDocs
         /\ boardDocs' = boardDocs \cup {BoardIds[i]}
         /\ creating' = BoardIds[i]
    /\ UNCHANGED <<engineVars, scorerVars, store, boards, selectedBoardId, subBoardId,
                   isModalOpen, formDueDate>>

\* createNewBoard after the await: setSelectedBoardId(docRef.id)
CreateBoardDone ==
    /\ pc = "app"
    /\ creating # Null
    /\ selectedBoardId' = creating
    /\ creating' = Null
    /\ UNCHANGED <<engineVars, scorerVars, store, boardDocs, boards, subBoardId,
                   isModalOpen, formDueDate>>

\* the effect runs again once selectedBoardId, one of its dependencies, has
\* changed: the old listeners are unsubscribed, the new ones close over it
RunEffect ==
    /\ pc = "app"
    /\ subBoardId # selectedBoardId
    /\ subBoardId' = selectedBoardId
    /\ UNCHANGED <<engineVars, scorerVars, store, boardDocs, boards, selectedBoardId,
                   creating, isModalOpen, formDueDate>>

\* handleCardClick({ ...card, listTitle: list.title }): the modal mounts
\* with the clicked card and computes its recommendations
HandleCardClick(i) ==
    /\ pc = "app"
    /\ ~ isModalOpen
    /\ boardDefined
    /\ i \in DOMAIN allCards
    /\ \E l \in DOMAIN defaultLists : defaultLists[l].id = allCards[i].listId
    /\ card' = withListTitle(allCards[i])
    /\ isModalOpen' = TRUE
    /\ formDueDate' = IF hasDueDate(card') THEN card'.dueDate ELSE EmptyDueDate
    /\ recs' = shownRecs(TRUE, card', allCards, now)
    /\ UNCHANGED <<allCards, now, pc, calls, scorerVars, store, boardDocs, boards,
                   selectedBoardId, subBoardId, creating>>

\* handleApplyRec(rec) of the button of a date or move suggestion:
\* updateCard writes the due date, or the id of the list titled rec.action
HandleApplyRec(j) ==
    /\ pc = "app"
    /\ isModalOpen
    /\ boardDefined
    /\ j \in DOMAIN recs
    /\ \/ /\ recs[j].type = "date"
          /\ formDueDate' = recs[j].action
          /\ store' = [store EXCEPT ![card.id].dueDate = recs[j].action]
       \/ /\ recs[j].type = "move"
          /\ \E l \in DOMAIN defaultLists :
               /\ defaultLists[l].title = recs[j].action
               /\ store' = [store EXCEPT ![card.id].listId = defaultLists[l].id]
          /\ UNCHANGED formDueDate
    /\ UNCHANGED <<engineVars, scorerVars, boardDocs, boards, selectedBoardId,
                   subBoardId, creating, isModalOpen>>

\* handleSave: updateCard(card.id, { title, description, dueDate }) with the
\* form state, then onClose()
HandleSave ==
    /\ pc = "app"
    /\ isModalOpen
    /\ boardDefined
    /\ store' = [store EXCEPT ![card.id] =
                    [@ EXCEPT !.title = card.title,
                              !.description = Some(orEmpty(card.description)),
                              !.dueDate = formDueDate]]
    /\ isModalOpen' = FALSE
    /\ recs' = << >>
    /\ UNCHANGED <<card, allCards, now, pc, calls, scorerVars, boardDocs, boards,
                   selectedBoardId, subBoardId, creating, formDueDate>>

\* onClose: setIsModalOpen(false)
CloseModal ==
    /\ pc = "app"
    /\ isModalOpen
    /\ boardDefined
    /\ isModalOpen' = FALSE
    /\ recs' = << >>
    /\ UNCHANGED <<card, allCards, now, pc, calls, scorerVars, store, boardDocs,
                   boards, selectedBoardId, subBoardId, creating, formDueDate>>

AppNext ==
    \/ BoardsSnapshot
    \/ CardsSnapshot
    \/ \E i \in DOMAIN BoardIds : SelectBoard(BoardIds[i])
    \/ CreateBoardStart
    \/ CreateBoardDone
    \/ RunEffect
    \/ \E i \in DOMAIN CardIds : HandleCardClick(i)
    \/ \E j \in DOMAIN recs : HandleApplyRec(j)
    \/ HandleSave
    \/ CloseModal

AppSpec ==
    AppInit /\ [][AppNext]_vars

(***************************************************************************)
(* Properties                                                              *)
(***************************************************************************)

\* the card list of the related-cards entry of recs; empty when there is none
RelatedList ==
    IF \E i \in DOMAIN recs : recs[i].type = "related"
    THEN recs[CHOOSE i \in DOMAIN recs : recs[i].type = "related"].cards
    ELSE << >>

\* the positions of allCards that hold a sibling: a card other than the target
Siblings ==
    { i \in DOMAIN allCards : allCards[i].id # card.id }

\* the similarity of the card at position i to the target
SimilarityOf(i) ==
    getJaccardSimilarity(content(card), cardText(allCards[i]))

\* the similarities of the first n cards of the collection, by position
RECURSIVE SimilaritiesUpTo(_)
SimilaritiesUpTo(n) ==
    IF n = 0 THEN << >> ELSE Append(SimilaritiesUpTo(n - 1), SimilarityOf(n))

\* the similarity to the target of every card of the collection, by position
Similarities ==
    SimilaritiesUpTo(Len(allCards))

\* with S the similarities by position: similarity > 0.25, = 0.25, and the
\* order of two similarities
Clears(S, i) ==
    4 * S[i].num > S[i].den

ExactlyAtThreshold(S, i) ==
    4 * S[i].num = S[i].den

Higher(S, i, k) ==
    S[i].num * S[k].den > S[k].num * S[i].den

SameScore(S, i, k) ==
    S[i].num * S[k].den = S[k].num * S[i].den

\* the sibling at position i is listed in the related-cards entry
Shown(i) ==
    \E j \in DOMAIN RelatedList : RelatedList[j].index = i

\* the siblings that rank before the one at i: a higher score, or the same
\* score and an earlier position in the collection
Ahead(S, i) ==
    { k \in Siblings : Higher(S, k, i) \/ (SameScore(S, k, i) /\ k < i) }

\* C1: a sibling whose similarity is at most 0.25 (0.25 included) is never in
\* the related-cards entry; a sibling whose similarity exceeds 0.25 is in it
\* whenever it is among the 3 highest-scoring siblings.
C1_Threshold ==
    pc = "done" =>
        LET S == Similarities
        IN  \A i \in Siblings :
            /\ ~ Clears(S, i) => ~ Shown(i)
            /\ (Clears(S, i) /\ Cardinality(Ahead(S, i)) < 3) => Shown(i)

C1_Witness ==
    /\ pc = "done"
    /\ LET S == Similarities
       IN  \E i, k \in Siblings :
         /\ ExactlyAtThreshold(S, i) /\ ~ Shown(i)
         /\ Clears(S, k) /\ Shown(k)

\* C2: whatever the collection holds, the target itself several times
\* included, no entry of the related-cards list has the target's identifier.
C2_SelfExcluded ==
    pc = "done" =>
        \A j \in DOMAIN RelatedList : RelatedList[j].card.id # card.id

C2_Witness ==
    /\ pc = "done"
    /\ Cardinality({ i \in DOMAIN allCards : allCards[i].id = card.id }) >= 2
    /\ Len(RelatedList) > 0

\* the indices of the entries of recs of one type
OfType(t) ==
    { i \in DOMAIN recs : recs[i].type = t }

UrgentWords ==
    \/ includes(content(card), kwToday)
    \/ includes(content(card), kwUrgent)
    \/ includes(content(card), kwAsap)

ShortTermWords ==
    includes(content(card), kwTomorrow) \/ includes(content(card), kwNextDay)

MediumTermWords ==
    includes(content(card), kwNextWeek) \/ includes(content(card), kwSevenDays)

\* C3: a card that has a due date gets no entry of type date, whatever
\* keywords its title and description contain.
C3_NoDateWhenDue ==
    (pc = "done" /\ card.dueDate.kind = "date") => OfType("date") = {}

C3_Witness ==
    /\ pc = "done"
    /\ card.dueDate.kind = "date"
    /\ UrgentWords /\ ShortTermWords /\ MediumTermWords
    /\ Len(recs) > 0

\* the calendar date in UTC of the instant of the call
UtcDay ==
    (now.day * 24 + now.hour - now.tz) \div 24

\* recs holds exactly one date entry, days after the day of the call, with rationale r
OneDate(days, r) ==
    /\ Cardinality(OfType("date")) = 1
    /\ \A i \in OfType("date") :
         /\ recs[i].action = DateString(UtcDay + days)
         /\ recs[i].rationale = r

\* C4: for a card without a due date the date rule is first match wins:
\* today, urgent or asap give offset 0 and the urgent rationale; otherwise
\* tomorrow or next day give offset 1 and the short-term rationale; otherwise
\* next week or 7 days give offset 7 and the medium-term rationale; otherwise
\* there is no date entry.  One branch applies even when several groups match.
C4_FirstMatchWins ==
    (pc = "done" /\ card.dueDate.kind # "date") =>
        IF UrgentWords THEN OneDate(0, "Based on urgent keywords.")
        ELSE IF ShortTermWords THEN OneDate(1, "Based on short-term keywords.")
        ELSE IF MediumTermWords THEN OneDate(7, "Based on medium-term keywords.")
        ELSE OfType("date") = {}

C4_Witness ==
    /\ pc = "done"
    /\ card.dueDate.kind # "date"
    /\ UrgentWords /\ ShortTermWords /\ MediumTermWords
    /\ OneDate(0, "Based on urgent keywords.")

StartedWords ==
    includes(content(card), kwStarted) \/ includes(content(card), kwWorkingOn)

FinishedWords ==
    includes(content(card), kwDone) \/ includes(content(card), kwComplete)

\* recs holds exactly one move entry, and it proposes the list titled t
OneMove(t) ==
    /\ Cardinality(OfType("move")) = 1
    /\ \A i \in OfType("move") : recs[i].action = t

\* C5: at most one move entry per call, with or without a due date: In
\* Progress when the list title contains To Do and the content started or
\* working on; only otherwise Done when the list title contains In Progress
\* and the content done or complete; none for a card in the list titled Done.
C5_MoveRule ==
    pc = "done" =>
        /\ Cardinality(OfType("move")) <= 1
        /\ IF includes(card.listTitle, strToDo) /\ StartedWords
           THEN OneMove(strInProgress)
           ELSE IF includes(card.listTitle, strInProgress) /\ FinishedWords
           THEN OneMove(strDone)
           ELSE OfType("move") = {}
        /\ card.listTitle = strDone => OfType("move") = {}

C5_Witness ==
    /\ pc = "done"
    /\ card.dueDate.kind = "date"
    /\ includes(card.listTitle, strToDo) /\ StartedWords
    /\ includes(card.listTitle, strInProgress) /\ FinishedWords
    /\ OneMove(strInProgress)

\* the place of a type in the fixed order date, move, related
Place(t) ==
    CASE t = "date" -> 1
      [] t = "move" -> 2
      [] t = "related" -> 3
      [] OTHER -> 0

DateRuleApplies ==
    card.dueDate.kind # "date" /\ (UrgentWords \/ ShortTermWords \/ MediumTermWords)

MoveRuleApplies ==
    \/ includes(card.listTitle, strToDo) /\ StartedWords
    \/ includes(card.listTitle, strInProgress) /\ FinishedWords

\* C6: the result has at most one entry of each kind, in the order date,
\* move, related; the related entry is there exactly when some sibling clears
\* the threshold, so its card list is never empty; the result is empty when
\* no rule applies and no sibling clears the threshold.
C6_OrderedResult ==
    pc = "done" =>
        LET S == Similarities
        IN  /\ \A i \in DOMAIN recs : Place(recs[i].type) > 0
            /\ \A i, j \in DOMAIN recs :
                 i < j => Place(recs[i].type) < Place(recs[j].type)
            /\ (OfType("related") # {}) <=> (\E i \in Siblings : Clears(S, i))
            /\ \A i \in OfType("related") : Len(recs[i].cards) > 0
            /\ (/\ ~ DateRuleApplies
                /\ ~ MoveRuleApplies
                /\ ~ \E i \in Siblings : Clears(S, i)) => recs = << >>

C6_Witness ==
    /\ pc = "done"
    /\ Len(recs) = 3
    /\ recs[1].type = "date" /\ recs[2].type = "move" /\ recs[3].type = "related"

\* the smaller of the cap 3 and the number of siblings above the threshold
KeptCount(S) ==
    LET n == Cardinality({ i \in Siblings : Clears(S, i) })
    IN  IF n < 3 THEN n ELSE 3

\* C7: the related-cards list is the siblings above the threshold sorted by
\* descending similarity and cut to the first 3: at most 3 entries, scores
\* never increase along it, every sibling above the threshold that is left
\* out scores no higher than every entry kept, and siblings with equal scores
\* keep their relative order from the input collection.
C7_Ranking ==
    pc = "done" =>
        LET R == RelatedList
            S == Similarities
        IN  /\ Len(R) <= 3
            /\ Len(R) = KeptCount(S)
            /\ \A j \in DOMAIN R :
                 /\ R[j].index \in Siblings
                 /\ Clears(S, R[j].index)
                 /\ R[j].card = allCards[R[j].index]
                 /\ R[j].similarity = S[R[j].index]
            /\ \A j, k \in DOMAIN R :
                 j < k => /\ R[j].index # R[k].index
                          /\ ~ Higher(S, R[k].index, R[j].index)
                          /\ SameScore(S, R[j].index, R[k].index) => R[j].index < R[k].index
            /\ \A i \in Siblings : \A j \in DOMAIN R :
                 (Clears(S, i) /\ ~ Shown(i)) =>
                     /\ ~ Higher(S, i, R[j].index)
                     /\ SameScore(S, i, R[j].index) => R[j].index < i

C7_Witness ==
    /\ pc = "done"
    /\ Len(RelatedList) = 3
    /\ LET S == Similarities
       IN  /\ Cardinality({ i \in Siblings : Clears(S, i) }) >= 4
           /\ SameScore(S, RelatedList[2].index, RelatedList[3].index)
           /\ Higher(S, RelatedList[1].index, RelatedList[2].index)
           /\ \E i \in Siblings : ~ Shown(i) /\ SameScore(S, i, RelatedList[3].index)

\* C8: getJaccardSimilarity is symmetric: the value returned for (text1,
\* text2) is the value of getJaccardSimilarity(text2, text1).
C8_Symmetric ==
    pc = "done" => sim = getJaccardSimilarity(text2, text1)

C8_Witness ==
    /\ pc = "done"
    /\ Cardinality(normalize(text1)) > Cardinality(normalize(text2))
    /\ sim.num > 0
    /\ sim.num < sim.den

\* C9: the similarity of any two texts lies between 0 and 1 inclusive, and
\* that of a text with itself is exactly 1 when the text normalizes to at
\* least one token.
C9_Range ==
    pc = "done" =>
        /\ sim.den > 0
        /\ 0 <= sim.num /\ sim.num <= sim.den
        /\ (text1 = text2 /\ normalize(text1) # {}) => sim.num = sim.den

C9_Witness ==
    /\ pc = "done"
    /\ text1 = text2
    /\ Cardinality(normalize(text1)) >= 2
    /\ sim.num = sim.den

\* the empty string, whitespace only, stop-words only, and stop-words with
\* tokens shorter than 3 characters
EmptyLike ==
    {<< >>, txtBlank, txtStopOnly, txtShortOnly}

\* C10: the similarity is 0, and no division by zero happens, whenever either
\* text normalizes to the empty token set: the empty string, whitespace only,
\* or only stop-words and tokens shorter than 3 characters, against any text,
\* another empty one included.
C10_EmptyIsZero ==
    pc = "done" =>
        ((\/ text1 \in EmptyLike \/ text2 \in EmptyLike
          \/ normalize(text1) = {} \/ normalize(text2) = {})
            => (sim.den # 0 /\ sim.num = 0))

C10_Witness ==
    /\ pc = "done"
    /\ text1 \in EmptyLike /\ text2 \in EmptyLike
    /\ text1 # text2
    /\ sim.den # 0 /\ sim.num = 0

\* the punctuation characters of ASCII: those the class of normalize lists,
\* and the question mark, the quotes, the at sign, the plus sign, the square
\* and angle brackets, the bar and the backslash, which it does not list
AsciiPunctuation ==
    {".", ",", "/", "#", "!", "$", "%", "^", "&", "*", ";", ":",
     "{", "}", "=", "-", "_", GraveAccent, "~", "(", ")",
     "?", "\"", "@", "+", "[", "]", "<", ">", "|", "\\"}

\* a text without its letter case and without its punctuation
Canonical(text) ==
    SelectSeq(toLowerCase(text), LAMBDA c : c \notin AsciiPunctuation)

\* every token is lower-case, free of punctuation, at least 3 characters long
\* and no stop-word
CleanTokens(tokens) ==
    \A w \in tokens :
        /\ Len(w) >= 3
        /\ w \notin stopWords
        /\ \A i \in DOMAIN w : w[i] \notin AsciiPunctuation /\ lowerChar(w[i]) = w[i]

\* C11: the normalizer maps any text to a set of tokens that are lower-case,
\* hold no punctuation character, have at least 3 characters and are none of
\* the stop-words; two texts that differ only in letter case or in
\* punctuation attached to words normalize to the same set.
C11_Normalizer ==
    pc = "done" =>
        /\ CleanTokens(normalize(text1))
        /\ Canonical(text1) = Canonical(text2) => normalize(text1) = normalize(text2)

\* the offset of the date rule that applies to the content of the card
RuleOffset ==
    IF UrgentWords THEN 0 ELSE IF ShortTermWords THEN 1 ELSE 7

\* C12: the date of a date suggestion is a calendar date without time of day
\* and is the current calendar date of the caller plus the offset of the
\* rule (0, 1 or 7 days), at every time of day and in every time zone.
C12_LocalDate ==
    pc = "done" =>
        \A i \in OfType("date") :
            recs[i].action = DateString(now.day + RuleOffset)

StoredCard ==
    withListTitle(fetchedCards(store)[CHOOSE i \in DOMAIN CardIds : CardIds[i] = card.id])

\* the modal is on screen and the cards state holds what the store holds
ModalUpToDate ==
    /\ pc = "app"
    /\ isModalOpen
    /\ boardDefined
    /\ allCards = cardsOfBoard(store, selectedBoardId)

\* C14: while a card's modal is open, the recommendations shown equal what
\* the engine returns for the card's currently stored title, description,
\* due date and list, also after a date or a move suggestion was applied and
\* the cards state has received the stored change.
C14_ShownIsCurrent ==
    ModalUpToDate => recs = getSmartRecommendations(StoredCard, allCards, now)

\* C15: in every reachable state of App, under any interleaving of board
\* selection, board creation and snapshot callbacks, every card of the cards
\* state has the boardId of the currently selected board.
C15_CardsOfSelectedBoard ==
    pc = "app" => \A i \in DOMAIN allCards : allCards[i].boardId = selectedBoardId

=============================================================================
